---- MODULE Spec2Model ----
(***************************************************************************)
(* Model of the Snapchat memories downloader pipeline (main.py,            *)
(* src/src/core.py, src/src/utils.py): dataframe construction, resumable   *)
(* sequential fetch with retry, zip expansion and metadata correction,     *)
(* over repeated runs against the same download directory (Spec), and the  *)
(* request _fetch_response issues for a link and a flag (SpecRequest).     *)
(***************************************************************************)
EXTENDS Integers, Sequences, FiniteSets, TLC

\* ---------------------------------------------------------------- bounds
MaxRows == 2      \* data rows of the memories HTML table
MaxNames == 2     \* distinct "{timestamp}_{media_type}" values
MaxEntries == 2   \* files of the served zips (see EntryBudget)
MaxRuns == 2      \* runs of download_memories over the same directory
MaxFaults == 1    \* errors over all runs: fetches given up, failed writes,
                  \* failed expansions, failed metadata steps
MaxLinkLen == 3   \* characters of a download_link handed to _fetch_response
MaxDegrees == 3   \* magnitude of a latitude or longitude

\* ------------------------------------------------------------- constants
\* max_retries of the retry wrapper (core.py:103); src/consts.py sets
\* MAX_RETRIES, the wrapper's own default (utils.py:12) is used here
MAX_RETRIES == 3

None == <<>>

\* file_name of a dataframe row: <<base, ord>>; ord = 0 is the manifest name
\* "{timestamp}_{media_type}", ord = n > 0 is "{base}_extracted_{n}"
Names == 1..MaxNames
ManifestName(b) == <<b, 0>>
ExtractedName(b, n) == <<b, n>>

\* extensions get_extension can sniff for the modelled responses
ZipExt == ".zip"
MediaExt == ".jpg"
Exts == {MediaExt, ZipExt}

\* entries of one directory listing of an extracted zip
SysEntry == "sys"
MediaEntry == "media"
Entries == {SysEntry, MediaEntry}
DirListings(b) == UNION {[1..n -> Entries] : n \in 0..b}

RECURSIVE SubDirs(_)
\* the listings of the directories below the root that hold files, with at
\* most b files in all
SubDirs(b) ==
    {<<>>} \cup UNION {{<<d>> \o t : t \in SubDirs(b - Len(d))} :
                         d \in DirListings(b) \ {<<>>}}

\* what os.walk yields for an extracted zip of at most b files: the listing
\* of the root, then those of the directories below it
Listings(b) ==
    UNION {{<<r>> \o t : t \in SubDirs(b - Len(r))} : r \in DirListings(b)}

RECURSIVE EntryCount(_)
\* number of files of an extracted zip, over all its directories
EntryCount(l) == IF l = <<>> THEN 0 ELSE Len(Head(l)) + EntryCount(Tail(l))

\* content of a file of download_dir: a response body (complete or cut
\* short), or an entry moved out of an extracted zip
MediaBody == [kind |-> "body", full |-> TRUE, valid |-> FALSE, listing |-> <<>>, entry |-> <<>>]
PartialBody == [kind |-> "body", full |-> FALSE, valid |-> FALSE, listing |-> <<>>, entry |-> <<>>]
BadZipBody == [kind |-> "body", full |-> TRUE, valid |-> FALSE, listing |-> <<>>, entry |-> <<>>]
ZipBody(l) == [kind |-> "body", full |-> TRUE, valid |-> TRUE, listing |-> l, entry |-> <<>>]
Member(src, d, n) == [kind |-> "member", full |-> TRUE, valid |-> FALSE, listing |-> <<>>, entry |-> <<src, d, n>>]

\* bodies the remote service can serve under a sniffed extension
Bodies(ext, b) ==
    IF ext = ZipExt THEN {BadZipBody} \cup {ZipBody(l) : l \in Listings(b)}
                    ELSE {MediaBody}

ManifestRows == [file_name : {ManifestName(b) : b \in Names}, download_link : BOOLEAN]
\* file_names are opaque: a manifest is taken up to renaming, each new name
\* being the smallest one not used by an earlier row
FirstUseOrder(m) ==
    \A k \in 1..Len(m) :
        \/ m[k].file_name[1] = 1
        \/ \E j \in 1..(k - 1) : m[j].file_name[1] >= m[k].file_name[1] - 1
Manifests ==
    {m \in UNION {[1..n -> ManifestRows] : n \in 1..MaxRows} : FirstUseOrder(m)}

VARIABLES
    manifest,       \* rows of the HTML table, in document order
    run,            \* number of runs started
    pc,             \* position in download_memories
    df,             \* the dataframe
    files,          \* download_dir: path -> content
    already_downloaded_files,
    i,              \* loop position of the current stage
    attempts,       \* retry wrapper: failed attempts of the current call
    phase,          \* position inside the current loop iteration
    completed_downloads,
    outcome,        \* per row: how the fetch stage left it in this run
    last_error,     \* kind of the exception the last failed attempt raised
    requested,      \* rows a request was issued for in this run
    slept,          \* rows after which the sequential delay was applied
    writes,         \* per row: whether the written path existed before
    zip_df,         \* _handle_zips: indices of the rows with is_zip
    new_rows,       \* _handle_zips: rows to append
    temp_dirs,      \* file_names whose temp_{file_name} directory exists
    zip_result,     \* per row: how _handle_zips left the archive in this run
    moves,          \* shutil.move calls of this run, in order
    faults,         \* I/O errors so far
    non_zip_df,     \* _update_memories_metadata: indices of the other rows
    meta_calls,     \* df indices _update_media_metadata_pyexiftool was called on
    corrected,      \* df indices whose file the metadata step operated on
    persisted,      \* per manifest row: extension of the last file written for it, or "none"
    error_log,      \* errors that ended a fetch in this run, with the handler taken
    last_call,      \* how far the last _update_media_metadata_pyexiftool call got
    memories_exists,\* main: the memories HTML file exists
    dir_exists,     \* main: download_dir exists
    fetch_link,     \* _fetch_response: download_link argument
    is_get_request, \* _fetch_response: is_get_request argument
    request,        \* _fetch_response: the request it issued
    lat,            \* _update_media_metadata_pyexiftool: lat argument
    lon,            \* _update_media_metadata_pyexiftool: lon argument
    metadata_tags   \* _update_media_metadata_pyexiftool: the GPS tags it built

vars == <<manifest, run, pc, df, files, already_downloaded_files, i,
          attempts, phase, completed_downloads, outcome, last_error, requested,
          slept, writes, zip_df, new_rows, temp_dirs, zip_result, moves,
          faults, non_zip_df, meta_calls, corrected, persisted, error_log,
          last_call, memories_exists, dir_exists, fetch_link, is_get_request,
          request, lat, lon, metadata_tags>>

fetchVars == <<already_downloaded_files, attempts, completed_downloads, outcome,
               last_error, requested, slept, writes>>
zipVars == <<zip_df, new_rows, temp_dirs, zip_result, moves>>
CanFail == faults < MaxFaults
metaVars == <<non_zip_df, meta_calls, corrected>>
mainVars == <<memories_exists, dir_exists>>
requestVars == <<fetch_link, is_get_request, request>>
tagVars == <<lat, lon, metadata_tags>>

\* ------------------------------------------------------------- helpers
Path(name, ext) == <<name, ext>>
PathName(p) == p[1]
PathExt(p) == p[2]

\* utils.get_already_downloaded_files: one entry per file_name; when several
\* files share a file_name the last one os.listdir yields wins (any of them)
IndexChoices(fs) ==
    LET stems == {PathName(p) : p \in DOMAIN fs}
    IN {idx \in [stems -> DOMAIN fs] : \A s \in stems : PathName(idx[s]) = s}

\* the lookup of core.py:155 never finding the file_name
AlreadyDownloadedNever(file_name, idx) == FALSE
AlreadyDownloaded(file_name, idx) == file_name \in DOMAIN idx

NewFrame(m) ==
    [k \in 1..Len(m) |->
        [file_name |-> m[k].file_name, download_link |-> m[k].download_link,
         file_path |-> None, is_zip |-> FALSE, is_extracted |-> FALSE]]

\* _update_media_metadata_pyexiftool not called yet in this run
NoCall == [step |-> "none", tool |-> "not_run", utime |-> "not_run"]

\* no run started yet, over an empty download_dir
PipelineInit ==
    /\ run = 0
    /\ pc = "start"
    /\ df = <<>>
    /\ files = <<>>
    /\ already_downloaded_files = <<>>
    /\ i = 0
    /\ attempts = 0
    /\ phase = "none"
    /\ completed_downloads = 0
    /\ outcome = <<>>
    /\ last_error = "none"
    /\ requested = {}
    /\ slept = {}
    /\ writes = <<>>
    /\ zip_df = <<>>
    /\ new_rows = <<>>
    /\ temp_dirs = {}
    /\ zip_result = <<>>
    /\ moves = <<>>
    /\ faults = 0
    /\ non_zip_df = <<>>
    /\ meta_calls = {}
    /\ corrected = {}
    /\ persisted = [k \in 1..Len(manifest) |-> "none"]
    /\ error_log = {}
    /\ last_call = NoCall

\* _fetch_response not called yet
NoRequest == [method |-> "none", url |-> <<>>, data |-> <<>>, content_type |-> "none"]

\* a float as sign bit and magnitude: float("-0") is -0.0
Float(neg, mag) == [neg |-> neg, mag |-> mag]
Zero == Float(FALSE, 0)

\* metadata_tags not built yet
NoTags == [GPSLatitudeRef |-> "none", GPSLongitudeRef |-> "none",
           GPSCoordinates |-> <<>>, Location |-> <<>>]

\* no call of _fetch_response, no tags built
NoCalls ==
    /\ fetch_link = <<>>
    /\ is_get_request = FALSE
    /\ request = NoRequest
    /\ lat = Zero
    /\ lon = Zero
    /\ metadata_tags = NoTags

Init ==
    /\ manifest \in Manifests
    /\ PipelineInit
    /\ memories_exists \in BOOLEAN
    /\ dir_exists \in BOOLEAN
    /\ NoCalls

\* download_memories up to the loop of _download_memories
StartRun ==
    /\ pc \in {"start", "done", "crashed"}
    /\ run < MaxRuns
    /\ run' = run + 1
    /\ pc' = "fetch"
    /\ df' = NewFrame(manifest)
    /\ already_downloaded_files' \in IndexChoices(files)
    /\ i' = 1
    /\ attempts' = 0
    /\ phase' = "row"
    /\ completed_downloads' = 0
    /\ outcome' = [k \in 1..Len(manifest) |-> "pending"]
    /\ last_error' = "none"
    /\ requested' = {}
    /\ slept' = {}
    /\ writes' = [k \in 1..Len(manifest) |-> "none"]
    /\ zip_df' = <<>>
    /\ new_rows' = <<>>
    /\ zip_result' = [k \in 1..Len(manifest) |-> "none"]
    /\ moves' = <<>>
    /\ non_zip_df' = <<>>
    /\ meta_calls' = {}
    /\ corrected' = {}
    /\ error_log' = {}
    /\ last_call' = NoCall
    /\ UNCHANGED <<manifest, memories_exists, requestVars, tagVars, persisted, files,
                   temp_dirs, faults>>

\* the makedirs of main.py:43 placed before the test of main.py:38
DirExistsAfterMainEager(found, existed) == TRUE
\* main.py:38-43: download_dir once main has returned or called download_memories
DirExistsAfterMain(found, existed) == IF found THEN TRUE ELSE existed

\* main.py:35-49
Main ==
    /\ pc \in {"start", "done", "crashed", "exited"}
    /\ run < MaxRuns
    /\ dir_exists' = DirExistsAfterMain(memories_exists, dir_exists)
    /\ IF memories_exists
       THEN StartRun
       ELSE /\ run' = run + 1
            /\ pc' = "exited"
            /\ UNCHANGED <<manifest, memories_exists, requestVars, tagVars, persisted,
                           error_log, last_call, df, files, i, phase, fetchVars,
                           zipVars, metaVars, faults>>

\* ------------------------------------------------- _download_memories
InFetchLoop == pc = "fetch" /\ i <= Len(df)

\* "extracted" in file_name (core.py:163)
IsExtractedName(file_name) == file_name[2] > 0

\* the row reaches the try block (core.py:155, 169)
Fetchable ==
    /\ InFetchLoop
    /\ phase = "row"
    /\ ~AlreadyDownloaded(df[i].file_name, already_downloaded_files)
    /\ df[i].download_link

\* core.py:205: the sequential delay at the end of an iteration
DelayApplies(completed, total) == completed < total
SleepAfter(row, completed) ==
    IF DelayApplies(completed, Len(df)) THEN slept \cup {row} ELSE slept

\* core.py:155-166
SkipAlreadyDownloaded ==
    /\ InFetchLoop
    /\ phase = "row"
    /\ AlreadyDownloaded(df[i].file_name, already_downloaded_files)
    /\ LET file_path == already_downloaded_files[df[i].file_name]
       IN df' = [df EXCEPT ![i].file_path = file_path,
                           ![i].is_zip = (PathExt(file_path) = ZipExt),
                           ![i].is_extracted = IsExtractedName(df[i].file_name)]
    /\ outcome' = [outcome EXCEPT ![i] = "resumed"]
    /\ i' = i + 1
    /\ UNCHANGED <<manifest, mainVars, requestVars, tagVars,
                   persisted, error_log, last_call,
                   run, pc, files, already_downloaded_files, attempts,
                   phase, completed_downloads, last_error, requested, slept, writes,
                   zipVars, metaVars, faults>>

\* core.py:169-171
SkipMissingLink ==
    /\ InFetchLoop
    /\ phase = "row"
    /\ ~AlreadyDownloaded(df[i].file_name, already_downloaded_files)
    /\ ~df[i].download_link
    /\ outcome' = [outcome EXCEPT ![i] = "missing"]
    /\ i' = i + 1
    /\ UNCHANGED <<manifest, mainVars, requestVars, tagVars,
                   persisted, error_log, last_call,
                   run, pc, df, files, already_downloaded_files,
                   attempts, phase, completed_downloads, last_error, requested, slept, writes,
                   zipVars, metaVars, faults>>

\* utils.py:18-24: one attempt of _fetch_response raises (HTTP status from
\* raise_for_status, or a transport error from requests.get/post); the attempt
\* that uses up the retries counts against MaxFaults
ErrorKinds == {"http", "conn"}
\* the loop condition of utils.py:18 off by one
CanAttemptOffByOne(n) == n <= MAX_RETRIES
CanAttempt(n) == n < MAX_RETRIES
FetchAttemptFails ==
    /\ Fetchable
    /\ CanAttempt(attempts)
    /\ CanAttempt(attempts + 1) \/ CanFail
    /\ \E kind \in ErrorKinds : last_error' = kind
    /\ requested' = requested \cup {i}
    /\ attempts' = attempts + 1
    /\ UNCHANGED <<manifest, mainVars, requestVars, tagVars,
                   persisted, error_log, last_call,
                   run, pc, df, files, already_downloaded_files, i,
                   phase, completed_downloads, outcome, slept, writes,
                   zipVars, metaVars, faults>>

\* utils.py:20: the attempt returns the response
FetchAttemptSucceeds ==
    /\ Fetchable
    /\ CanAttempt(attempts)
    /\ requested' = requested \cup {i}
    /\ phase' = "response"
    /\ UNCHANGED <<manifest, mainVars, requestVars, tagVars,
                   persisted, error_log, last_call,
                   run, pc, df, files, already_downloaded_files, i,
                   attempts, completed_downloads, outcome, last_error, slept,
                   writes,
                   zipVars, metaVars, faults>>

\* the exception of utils.py:25 escaping the loop of _download_memories
RetryExhaustedUncaught ==
    /\ pc = "fetch" /\ i <= Len(df) /\ phase = "row"
    /\ ~AlreadyDownloaded(df[i].file_name, already_downloaded_files)
    /\ df[i].download_link
    /\ attempts >= MAX_RETRIES
    /\ outcome' = [outcome EXCEPT ![i] = "retry_failed"]
    /\ pc' = "crashed"
    /\ UNCHANGED <<manifest, mainVars, requestVars, tagVars,
                   persisted, error_log, last_call,
                   run, df, files, already_downloaded_files, i, attempts,
                   phase, completed_downloads, last_error, requested, slept,
                   writes, zip_df, new_rows, temp_dirs, zip_result, moves,
                   non_zip_df, meta_calls, corrected, faults>>

\* utils.py:25: what the wrapper raises once the attempts are used up
RetryRaises(kind) == "Exception"

\* core.py:199-202: the except clause that handles an exception of the try block
HandlerBranch(exc) == IF exc = "HTTPError" THEN "http_error" ELSE "unexpected"

\* utils.py:25 raises; core.py:201-207 handles it and ends the iteration
RetryExhausted ==
    /\ Fetchable
    /\ ~CanAttempt(attempts)
    /\ outcome' = [outcome EXCEPT ![i] = "retry_failed"]
    /\ error_log' = error_log \cup
                       {[error |-> last_error,
                         branch |-> HandlerBranch(RetryRaises(last_error))]}
    /\ slept' = SleepAfter(i, completed_downloads)
    /\ attempts' = 0
    /\ last_error' = "none"
    /\ i' = i + 1
    /\ faults' = faults + 1
    /\ UNCHANGED <<manifest, mainVars, requestVars, tagVars,
                   persisted, last_call,
                   run, pc, df, files, already_downloaded_files,
                   phase, completed_downloads, requested, writes,
                   zipVars, metaVars>>

PersistResults == {"ok", "open_failed", "stream_failed"}

RECURSIVE EntriesOnDisk(_, _)
\* files held by the archives of download_dir other than the paths in ps
EntriesOnDisk(fs, ps) ==
    IF DOMAIN fs \subseteq ps THEN 0
    ELSE LET p == CHOOSE x \in DOMAIN fs \ ps : TRUE
         IN EntryCount(fs[p].listing) + EntriesOnDisk(fs, ps \cup {p})

\* the rows of the manifest and the files of the archives served for it
\* together number at most MaxEntries + 1
EntryBudget(fs, file_path) ==
    MaxEntries + 1 - Len(manifest) - EntriesOnDisk(fs, {file_path})

\* core.py:192-194: what open(file_path, "wb") and the chunk loop leave
WriteFile(fs, file_path, body, result) ==
    CASE result = "ok" -> (file_path :> body) @@ fs
      [] result = "stream_failed" -> (file_path :> PartialBody) @@ fs
      [] OTHER -> fs

\* core.py:178-207: sniff the extension, record file_path, write the body
Persist ==
    /\ InFetchLoop
    /\ phase = "response"
    /\ \E ext \in Exts, result \in PersistResults :
         LET file_path == Path(df[i].file_name, ext)
             done == IF result = "ok" THEN completed_downloads + 1
                                      ELSE completed_downloads
         IN /\ result # "ok" => CanFail
            /\ faults' = IF result = "ok" THEN faults ELSE faults + 1
            /\ \E body \in Bodies(ext, EntryBudget(files, file_path)) :
                  files' = WriteFile(files, file_path, body, result)
            /\ df' = [df EXCEPT ![i].is_zip = IF ext = ZipExt THEN TRUE ELSE @,
                                ![i].file_path = file_path]
            /\ writes' = [writes EXCEPT ![i] =
                            IF result = "open_failed" THEN "none"
                            ELSE IF file_path \in DOMAIN files THEN "overwrote"
                            ELSE "created"]
            /\ completed_downloads' = done
            /\ outcome' = [outcome EXCEPT ![i] =
                            IF result = "ok" THEN "downloaded" ELSE result]
            /\ slept' = SleepAfter(i, done)
            /\ persisted' = IF result = "open_failed" THEN persisted
                             ELSE [persisted EXCEPT ![i] = ext]
            /\ error_log' = IF result = "ok" THEN error_log
                             ELSE error_log \cup
                                    {[error |-> "os", branch |-> HandlerBranch("OSError")]}
    /\ attempts' = 0
    /\ last_error' = "none"
    /\ phase' = "row"
    /\ i' = i + 1
    /\ UNCHANGED <<manifest, mainVars, requestVars, tagVars,
                   last_call,
                   run, pc, already_downloaded_files, requested,
                   zipVars, metaVars>>

\* ------------------------------------------------------ _handle_zips
RECURSIVE RowsWhereReversed(_, _, _)
\* the selected rows in decreasing index order
RowsWhereReversed(d, zip, k) ==
    IF k > Len(d) THEN <<>>
    ELSE RowsWhereReversed(d, zip, k + 1) \o (IF d[k].is_zip = zip THEN <<k>> ELSE <<>>)

RECURSIVE RowsWhere(_, _, _)
\* df[df["is_zip"] == zip], as the indices of the selected rows from k on
RowsWhere(d, zip, k) ==
    IF k > Len(d) THEN <<>>
    ELSE (IF d[k].is_zip = zip THEN <<k>> ELSE <<>>) \o RowsWhere(d, zip, k + 1)

\* utils.is_system_file
IsSystemFile(entry) == entry = SysEntry

RECURSIVE SurvivorsFrom(_, _, _)
\* the entries the os.walk loop moves, in walk order, as <<dir, position>>
SurvivorsFrom(l, d, n) ==
    IF d > Len(l) THEN <<>>
    ELSE IF n > Len(l[d]) THEN SurvivorsFrom(l, d + 1, 1)
    ELSE (IF IsSystemFile(l[d][n]) THEN <<>> ELSE << <<d, n>> >>)
         \o SurvivorsFrom(l, d, n + 1)
Survivors(l) == SurvivorsFrom(l, 1, 1)

\* core.py:238, 248: i + 1 of enumerate(extractable_files)
Ordinal(l, d, n) == n

\* core.py:248-249
FinalPath(zip_file_name, l, e) ==
    Path(ExtractedName(zip_file_name[1], Ordinal(l, e[1], e[2])), MediaExt)

RECURSIVE MoveEntries(_, _, _, _, _)
\* download_dir after shutil.move of the first m surviving entries
MoveEntries(fs, zip_file_name, l, s, m) ==
    IF m = 0 THEN fs
    ELSE (FinalPath(zip_file_name, l, s[m]) :> Member(zip_file_name, s[m][1], s[m][2]))
         @@ MoveEntries(fs, zip_file_name, l, s, m - 1)

\* core.py:424-434, 214-218
FetchDone ==
    /\ pc = "fetch"
    /\ i > Len(df)
    /\ pc' = "zips"
    /\ zip_df' = RowsWhere(df, TRUE, 1)
    /\ new_rows' = <<>>
    /\ i' = 1
    /\ phase' = "open"
    /\ UNCHANGED <<manifest, mainVars, requestVars, tagVars,
                   persisted, error_log, last_call,
                   run, df, files, fetchVars, temp_dirs, zip_result,
                   moves, metaVars, faults>>

InZipLoop == pc = "zips" /\ i <= Len(zip_df)

\* core.py:229-233: open the archive and extract it into the temp directory
ZipOpen ==
    /\ InZipLoop
    /\ phase = "open"
    /\ LET row == df[zip_df[i]]
       IN IF row.file_path \notin DOMAIN files
          THEN /\ zip_result' = [zip_result EXCEPT ![zip_df[i]] = "error"]
               /\ phase' = "finally"
               /\ UNCHANGED <<temp_dirs, faults>>
          ELSE IF ~files[row.file_path].valid
          THEN /\ zip_result' = [zip_result EXCEPT ![zip_df[i]] = "bad_zip"]
               /\ phase' = "finally"
               /\ UNCHANGED <<temp_dirs, faults>>
          ELSE /\ temp_dirs' = temp_dirs \cup {row.file_name}
               /\ \E extracted \in BOOLEAN :
                    IF extracted
                    THEN /\ phase' = "walk"
                         /\ UNCHANGED <<zip_result, faults>>
                    ELSE /\ CanFail
                         /\ faults' = faults + 1
                         /\ phase' = "finally"
                         /\ zip_result' = [zip_result EXCEPT ![zip_df[i]] = "error"]
    /\ UNCHANGED <<manifest, mainVars, requestVars, tagVars,
                   persisted, error_log, last_call,
                   run, pc, df, files, i, fetchVars, zip_df, new_rows,
                   moves, metaVars>>

\* core.py:236-272: move the surviving entries; an error may end the walk
\* after any number of moves
ZipWalk ==
    /\ InZipLoop
    /\ phase = "walk"
    /\ LET row == df[zip_df[i]]
           l == files[row.file_path].listing
           s == Survivors(l)
       IN \E m \in 0..Len(s) :
            /\ m < Len(s) => CanFail
            /\ faults' = IF m < Len(s) THEN faults + 1 ELSE faults
            /\ files' = MoveEntries(files, row.file_name, l, s, m)
            /\ new_rows' = new_rows \o
                 [k \in 1..m |->
                    [row EXCEPT !.file_name = PathName(FinalPath(row.file_name, l, s[k])),
                                !.file_path = FinalPath(row.file_name, l, s[k]),
                                !.is_zip = FALSE,
                                !.is_extracted = TRUE]]
            /\ moves' = moves \o
                 [k \in 1..m |->
                    [row |-> zip_df[i], dir |-> s[k][1], pos |-> s[k][2],
                     dest |-> FinalPath(row.file_name, l, s[k]),
                     existed |-> FinalPath(row.file_name, l, s[k]) \in
                        DOMAIN MoveEntries(files, row.file_name, l, s, k - 1)]]
            /\ zip_result' = [zip_result EXCEPT ![zip_df[i]] =
                                IF m = Len(s) THEN "ok" ELSE "error"]
    /\ phase' = "finally"
    /\ UNCHANGED <<manifest, mainVars, requestVars, tagVars,
                   persisted, error_log, last_call,
                   run, pc, df, i, fetchVars, zip_df, temp_dirs, metaVars>>

\* the cleanup of core.py:276-277 left out
RemoveTempKeep(dirs, zip_file_name) == dirs

\* core.py:276-277
RemoveTemp(dirs, zip_file_name) == dirs \ {zip_file_name}

\* core.py:275-278
ZipFinally ==
    /\ InZipLoop
    /\ phase = "finally"
    /\ temp_dirs' = RemoveTemp(temp_dirs, df[zip_df[i]].file_name)
    /\ i' = i + 1
    /\ phase' = "open"
    /\ UNCHANGED <<manifest, mainVars, requestVars, tagVars,
                   persisted, error_log, last_call,
                   run, pc, df, files, fetchVars, zip_df, new_rows,
                   zip_result, moves, metaVars, faults>>

\* the new rows put in front of the dataframe
AppendRowsInFront(d, rows) == rows \o d
\* core.py:281-282: df.loc[len(df)] = new_row, for each new row in turn
AppendRows(d, rows) == d \o rows

\* core.py:280-284, 436-441, 378-381
ZipsDone ==
    /\ pc = "zips"
    /\ i > Len(zip_df)
    /\ df' = AppendRows(df, new_rows)
    /\ pc' = "meta"
    /\ non_zip_df' = RowsWhere(AppendRows(df, new_rows), FALSE, 1)
    /\ i' = 1
    /\ phase' = "row"
    /\ UNCHANGED <<manifest, mainVars, requestVars, tagVars,
                   persisted, error_log, last_call,
                   run, files, fetchVars, zipVars, meta_calls, corrected,
                   faults>>

\* ----------------------------------------- _update_memories_metadata
InMetaLoop == pc = "meta" /\ i <= Len(non_zip_df)

\* core.py:388: os.path.basename(file_path) raises TypeError on None
HasFilePath(row) == row.file_path # None

\* core.py:342-359: how the ExifToolHelper block ends
ToolResults == {"ok", "unavailable", "failed"}
\* core.py:366-371: how os.utime ends
UtimeResults == {"ok", "failed"}

\* an except clause of core.py:355-359 returning from the function
AfterToolReturnOnError(tool) == IF tool = "ok" THEN "utime" ELSE "return"
\* core.py:353-362: the step that follows the ExifToolHelper block
AfterTool(tool) == "utime"

\* core.py:295-371: what one call does to a file, file_path being a string
MetadataCall(exists, parsed, tool, utime) ==
    IF ~exists THEN [step |-> "no_file", tool |-> "not_run", utime |-> "not_run"]
    ELSE IF ~parsed
    THEN [step |-> "bad_timestamp", tool |-> "not_run", utime |-> "not_run"]
    ELSE [step |-> "done", tool |-> tool,
          utime |-> IF AfterTool(tool) = "utime" THEN utime ELSE "not_run"]

\* errors met by one call
MetadataFaults(call) ==
    (IF call.step = "bad_timestamp" THEN 1 ELSE 0)
    + (IF call.tool \in {"unavailable", "failed"} THEN 1 ELSE 0)
    + (IF call.utime = "failed" THEN 1 ELSE 0)

\* core.py:383-394 with core.py:295-371
UpdateMetadata ==
    /\ InMetaLoop
    /\ LET k == non_zip_df[i]
       IN IF ~HasFilePath(df[k])
          THEN /\ pc' = "crashed"
               /\ UNCHANGED <<i, meta_calls, corrected, last_call, faults>>
          ELSE /\ meta_calls' = meta_calls \cup {k}
               /\ corrected' = IF df[k].file_path \in DOMAIN files
                               THEN corrected \cup {k} ELSE corrected
               /\ \E parsed \in BOOLEAN, tool \in ToolResults, utime \in UtimeResults :
                    LET call == MetadataCall(df[k].file_path \in DOMAIN files,
                                             parsed, tool, utime)
                    IN /\ faults + MetadataFaults(call) <= MaxFaults
                       /\ faults' = faults + MetadataFaults(call)
                       /\ last_call' = call
               /\ i' = i + 1
               /\ UNCHANGED pc
    /\ UNCHANGED <<manifest, mainVars, requestVars, tagVars,
                   persisted, error_log, run, df,
                   files, phase, fetchVars, zipVars, non_zip_df>>

\* core.py:443-445
MetaDone ==
    /\ pc = "meta"
    /\ i > Len(non_zip_df)
    /\ pc' = "done"
    /\ UNCHANGED <<manifest, mainVars, requestVars, tagVars,
                   persisted, error_log, last_call,
                   run, df, files, i, phase, fetchVars, zipVars, metaVars,
                   faults>>

\* ------------------------------------------------------ _fetch_response
\* a download_link is a string of these characters
LinkChars == {"a", "=", "?"}
Links == UNION {[1..n -> LinkChars] : n \in 1..MaxLinkLen}

\* core.py:87: match.group(2) == "true"
FlagTexts == {"true", "false"}
IsGetRequest(text) == text = "true"

HasMark(link) == \E n \in DOMAIN link : link[n] = "?"
\* the split done at the last "?" of the link
LastMark(link) ==
    CHOOSE n \in DOMAIN link : link[n] = "?" /\ \A m \in DOMAIN link : m > n => link[m] # "?"
\* core.py:114: where split("?", 1) cuts the link
FirstMark(link) ==
    CHOOSE n \in DOMAIN link : link[n] = "?" /\ \A m \in DOMAIN link : m < n => link[m] # "?"

\* core.py:114: download_link.split("?", 1)
SplitOnce(link) ==
    IF HasMark(link)
    THEN <<SubSeq(link, 1, FirstMark(link) - 1),
           SubSeq(link, FirstMark(link) + 1, Len(link))>>
    ELSE <<link>>

\* core.py:107-120: the request _fetch_response issues
FetchRequest(link, get) ==
    IF get
    THEN [method |-> "GET", url |-> link, data |-> <<>>, content_type |-> "none"]
    ELSE LET url_parts == SplitOnce(link)
         IN [method |-> "POST", url |-> url_parts[1],
             data |-> IF Len(url_parts) > 1 THEN url_parts[2] ELSE <<>>,
             content_type |-> "application/x-www-form-urlencoded"]

\* one call of _fetch_response on a link and flag parsed from an onclick
InitRequest ==
    /\ manifest = <<>>
    /\ PipelineInit
    /\ memories_exists = TRUE
    /\ dir_exists = TRUE
    /\ fetch_link \in Links
    /\ \E text \in FlagTexts : is_get_request = IsGetRequest(text)
    /\ request = NoRequest
    /\ lat = Zero
    /\ lon = Zero
    /\ metadata_tags = NoTags

\* core.py:104-124
FetchResponse ==
    /\ request = NoRequest
    /\ request' = FetchRequest(fetch_link, is_get_request)
    /\ UNCHANGED <<manifest, mainVars, fetch_link, is_get_request, tagVars, persisted,
                   error_log, last_call, run, pc, df, files, i, phase, fetchVars,
                   zipVars, metaVars, faults>>

NextRequest == FetchResponse

SpecRequest == InitRequest /\ [][NextRequest]_vars

\* ------------------------------- GPS tags of _update_media_metadata_pyexiftool
\* utils.py:54-59: float() of a match of -?\d+\.?\d*
Floats == {Float(neg, mag) : neg \in BOOLEAN, mag \in 0..MaxDegrees}

\* x >= 0 on floats: -0.0 >= 0 holds
GeZero(x) == ~x.neg \/ x.mag = 0
\* abs(x), as the f-string prints it
Abs(x) == x.mag

\* the test lat > 0 in place of lat >= 0
LatitudeRefStrict(x) == IF ~x.neg /\ x.mag > 0 THEN "N" ELSE "S"
\* core.py:332
LatitudeRef(x) == IF GeZero(x) THEN "N" ELSE "S"
\* core.py:333
LongitudeRef(x) == IF GeZero(x) THEN "E" ELSE "W"

\* core.py:310: the words of gps_coordinate_string
GpsCoordinateString(la, lo) ==
    <<Abs(la), IF GeZero(la) THEN "N" ELSE "S",
      Abs(lo), IF GeZero(lo) THEN "E" ELSE "W">>

\* core.py:316-338: the GPS reference and location tags
MetadataTags(la, lo) ==
    [GPSLatitudeRef |-> LatitudeRef(la),
     GPSLongitudeRef |-> LongitudeRef(lo),
     GPSCoordinates |-> GpsCoordinateString(la, lo),
     Location |-> GpsCoordinateString(la, lo)]

\* one call of _update_media_metadata_pyexiftool on parsed coordinates
InitTags ==
    /\ manifest = <<>>
    /\ PipelineInit
    /\ memories_exists = TRUE
    /\ dir_exists = TRUE
    /\ fetch_link = <<>>
    /\ is_get_request = FALSE
    /\ request = NoRequest
    /\ lat \in Floats
    /\ lon \in Floats
    /\ metadata_tags = NoTags

\* core.py:308-338
BuildTags ==
    /\ metadata_tags = NoTags
    /\ metadata_tags' = MetadataTags(lat, lon)
    /\ UNCHANGED <<manifest, mainVars, requestVars, lat, lon, persisted,
                   error_log, last_call, run, pc, df, files, i, phase, fetchVars,
                   zipVars, metaVars, faults>>

NextTags == BuildTags

SpecTags == InitTags /\ [][NextTags]_vars

Next ==
    \/ Main
    \/ SkipAlreadyDownloaded
    \/ SkipMissingLink
    \/ FetchAttemptFails
    \/ FetchAttemptSucceeds
    \/ RetryExhausted
    \/ Persist
    \/ FetchDone
    \/ ZipOpen
    \/ ZipWalk
    \/ ZipFinally
    \/ ZipsDone
    \/ UpdateMetadata
    \/ MetaDone

Spec == Init /\ [][Next]_vars

\* ------------------------------------------------------------ properties
Rows == DOMAIN outcome
PastFetch == pc \in {"zips", "meta", "done", "crashed"}
FailedOutcomes == {"retry_failed", "open_failed", "stream_failed"}
SeqRange(q) == {q[k] : k \in DOMAIN q}
MovesOf(k) == {n \in DOMAIN moves : moves[n].row = k}

\* C1: a row whose file_name is a key of the resume index built at the start
\* of the run is never requested in that run; a run whose index holds every
\* row's file_name issues no request at all.
C1_NoRequestForIndexedRow ==
    /\ \A k \in Rows :
          df[k].file_name \in DOMAIN already_downloaded_files => k \notin requested
    /\ (\A k \in Rows : df[k].file_name \in DOMAIN already_downloaded_files)
          => requested = {}

\* a second run that finished its fetch stage over a directory holding the
\* file of every row, one of them with a download link
C1_Witness ==
    /\ run = 2
    /\ PastFetch
    /\ \A k \in Rows : outcome[k] = "resumed"
    /\ \E k \in Rows : df[k].download_link
    /\ requested = {}

\* the archive of row k was found by the resume index together with every
\* member an expansion of it would move
MembersFound(k) ==
    /\ outcome[k] = "resumed"
    /\ df[k].is_zip
    /\ df[k].file_path \in DOMAIN files
    /\ files[df[k].file_path].valid
    /\ LET l == files[df[k].file_path].listing
       IN /\ Survivors(l) # <<>>
          /\ \A e \in SeqRange(Survivors(l)) :
                PathName(FinalPath(df[k].file_name, l, e))
                    \in DOMAIN already_downloaded_files

\* C2: when a run starts with an archive and all its expanded members on
\* disk, _handle_zips neither extracts the archive again nor moves a file
\* onto a member.
C2_NoReExpansion ==
    \A k \in Rows :
        MembersFound(k) =>
            /\ df[k].file_name \notin temp_dirs
            /\ MovesOf(k) = {}

\* C3: the metadata stage never aborts, and once the pipeline is done it has
\* operated on exactly the non-archive rows that have a file_path.
C3_MetadataStageCompletes ==
    /\ pc # "crashed"
    /\ pc = "done" =>
          meta_calls = {k \in DOMAIN df : ~df[k].is_zip /\ HasFilePath(df[k])}

\* C4: a row whose fetch failed on every attempt has no file_path, and every
\* row after it has been handled by the fetch stage once that stage is over.
C4_RetryFailureSkipsRowOnly ==
    \A k \in Rows :
        outcome[k] = "retry_failed" =>
            /\ df[k].file_path = None
            /\ PastFetch => \A j \in Rows : j > k => outcome[j] # "pending"

\* a failed row followed by a downloaded one, the fetch stage being over
C4_Witness ==
    /\ PastFetch
    /\ \E k, j \in Rows :
          k < j /\ outcome[k] = "retry_failed" /\ outcome[j] = "downloaded"

\* C5: a row whose fetch-and-persist step failed has no file_path and is
\* touched neither by _handle_zips nor by the metadata stage.
C5_FailedRowExcluded ==
    \A k \in Rows :
        outcome[k] \in FailedOutcomes =>
            /\ df[k].file_path = None
            /\ zip_result[k] = "none"
            /\ k \notin meta_calls

\* C6: no response body is ever written onto a file that exists in the
\* download directory, also when two rows share a file_name.
C6_NeverOverwrites == \A k \in Rows : writes[k] # "overwrote"

\* requests issued so far by the retry wrapper for the current row
RequestsIssued == attempts + (IF phase = "response" THEN 1 ELSE 0)

\* C7: the retry wrapper issues at most MAX_RETRIES requests for a row; a
\* failed attempt of any kind is counted and retried; a successful attempt
\* returns at once; the failure is raised exactly when MAX_RETRIES attempts
\* have failed.
C7_RetryPolicy ==
    [][ /\ RequestsIssued' <= MAX_RETRIES
        /\ (pc = "fetch" /\ attempts' > attempts) =>
              /\ attempts' = attempts + 1
              /\ last_error' \in ErrorKinds
              /\ i' = i /\ phase' = "row" /\ outcome' = outcome
        /\ (pc = "fetch" /\ phase = "response") =>
              /\ i' = i + 1
              /\ outcome'[i] \notin {"pending", "retry_failed"}
        /\ \A k \in Rows :
              (outcome[k] # "retry_failed" /\ outcome'[k] = "retry_failed")
                  => (k = i /\ attempts = MAX_RETRIES)
        /\ (pc = "fetch" /\ phase = "row" /\ attempts = MAX_RETRIES) =>
              outcome'[i] = "retry_failed"
      ]_vars

\* the wrapper gave up on one row and returned a response for another one
\* after failed attempts of both kinds
C7_Witness ==
    /\ pc = "fetch"
    /\ phase = "response"
    /\ attempts = MAX_RETRIES - 1
    /\ last_error = "http"
    /\ \E k \in Rows : outcome[k] = "retry_failed"

\* C8: the sequential delay is applied only after a row that was downloaded
\* and is not the last row.
C8_DelayOnlyBetweenDownloads ==
    \A k \in slept : outcome[k] = "downloaded" /\ k < Len(manifest)

\* C9: the temp directory of an archive exists only while _handle_zips is
\* processing that archive.
C9_TempDirRemoved ==
    \A n \in temp_dirs :
        /\ InZipLoop
        /\ phase \in {"walk", "finally"}
        /\ df[zip_df[i]].file_name = n

\* an archive whose walk failed after a move, its processing over
C9_Witness ==
    /\ pc = "meta"
    /\ temp_dirs = {}
    /\ \E k \in Rows : zip_result[k] = "error" /\ MovesOf(k) # {}

SurvivorsIn(l, d) == {n \in DOMAIN l[d] : ~IsSystemFile(l[d][n])}

\* C10: an expanded archive with k surviving entries yields k new rows, all
\* is_extracted and not is_zip, and the entries of each directory listing
\* get the suffixes 1..(number of surviving entries of that listing).
C10_ContiguousSuffixes ==
    /\ \A n \in DOMAIN new_rows : new_rows[n].is_extracted /\ ~new_rows[n].is_zip
    /\ \A k \in Rows :
          zip_result[k] = "ok" =>
              LET l == files[df[k].file_path].listing
              IN /\ Cardinality(MovesOf(k)) = Len(Survivors(l))
                 /\ \A d \in DOMAIN l :
                       {PathName(moves[n].dest)[2] :
                            n \in {x \in MovesOf(k) : moves[x].dir = d}}
                           = 1..Cardinality(SurvivorsIn(l, d))

\* C11: _handle_zips leaves every row of the dataframe as the fetch stage
\* left it, archive rows included, and ends by appending one row per moved
\* member after the rows of the manifest.
C11_AppendOnly ==
    [][ pc = "zips" =>
          /\ pc' = "zips" => df' = df
          /\ pc' # "zips" =>
                /\ Len(df') = Len(manifest) + Len(moves)
                /\ SubSeq(df', 1, Len(manifest)) = df
                /\ \A n \in DOMAIN moves :
                      /\ df'[Len(manifest) + n].file_path = moves[n].dest
                      /\ df'[moves[n].row].is_zip
                      /\ df'[moves[n].row].file_path = df[moves[n].row].file_path
      ]_vars

\* the dataframe after the expansion of an archive of which a member was moved
C11_Witness ==
    /\ pc = "meta"
    /\ moves # <<>>
    /\ Len(df) = Len(manifest) + Len(moves)
    /\ \E k \in Rows : df[k].is_zip /\ zip_result[k] = "ok"

\* C12: a row without download link is never requested, is left without
\* file_path, is not a failed row, and the rows after it are handled.
C12_MissingLinkSkipped ==
    \A k \in Rows :
        ~df[k].download_link =>
            /\ k \notin requested
            /\ df[k].file_path = None
            /\ outcome[k] \notin FailedOutcomes
            /\ PastFetch => \A j \in Rows : j > k => outcome[j] # "pending"

\* C13: a resumed row takes is_zip from the extension of the indexed file,
\* which is the is_zip the run that wrote a file for the row gave it, and
\* is_extracted from its file_name.
C13_ResumedFlags ==
    \A k \in Rows :
        outcome[k] = "resumed" =>
            /\ df[k].is_zip = (PathExt(df[k].file_path) = ZipExt)
            /\ persisted[k] # "none" => df[k].is_zip = (persisted[k] = ZipExt)
            /\ df[k].is_extracted = IsExtractedName(df[k].file_name)

\* the rows of meta_calls are the first i - 1 rows of non_zip_df
VisitedPrefix == meta_calls = {non_zip_df[n] : n \in 1..(i - 1)}

\* C14: a call that parsed the timestamp goes on to os.utime whatever the
\* ExifTool step did, and after a call the loop has moved on to the next
\* row whatever os.utime did.
C14_TimesSetWhateverTool ==
    /\ last_call.step = "done" => last_call.utime \in UtimeResults
    /\ last_call.step # "none" =>
          /\ pc \in {"meta", "done", "crashed"}
          /\ i > 1
          /\ VisitedPrefix
    /\ pc = "done" => meta_calls = SeqRange(non_zip_df)

\* the tool failed on a file, or was not found, and the times of the file
\* were set
C14_Witness ==
    /\ last_call.tool \in {"unavailable", "failed"}
    /\ last_call.utime = "ok"

\* C15: a fetch given up on HTTP error statuses ends in the HTTPError clause
\* and one given up on connection errors in the other clause.
C15_DistinctErrorOutcomes ==
    \A p \in error_log :
        /\ p.error = "http" => p.branch = "http_error"
        /\ p.error = "conn" => p.branch = "unexpected"

\* C16: rows are fetched in row order, archives are expanded after the fetch
\* loop has ended, metadata is updated after the last archive, and
\* non_zip_df is visited in increasing df order.
C16_FixedOrder ==
    /\ pc = "fetch" =>
          \A k \in Rows : /\ k < i => outcome[k] # "pending"
                          /\ k > i => outcome[k] = "pending" /\ k \notin requested
    /\ (moves # <<>> \/ \E k \in Rows : zip_result[k] # "none") =>
          /\ PastFetch
          /\ \A k \in Rows : outcome[k] # "pending"
    /\ meta_calls # {} =>
          /\ pc \in {"meta", "done", "crashed"}
          /\ \A n \in DOMAIN zip_df : zip_result[zip_df[n]] # "none"
    /\ pc \in {"meta", "done", "crashed"} =>
          /\ VisitedPrefix
          /\ \A n, m \in DOMAIN non_zip_df : n < m => non_zip_df[n] < non_zip_df[m]
          /\ SeqRange(non_zip_df) = {k \in DOMAIN df : ~df[k].is_zip}

\* the pipeline is done, having visited a manifest row and then a member of
\* an expanded archive
C16_Witness ==
    /\ pc = "done"
    /\ \E k \in Rows : zip_result[k] = "ok"
    /\ \E k, j \in meta_calls : k <= Len(manifest) /\ j > Len(manifest)

\* C17: _fetch_response issues a GET to the whole link when is_get_request,
\* and otherwise a form-encoded POST to the part of the link before its
\* first "?" with the part after it as data (no data without "?").
C17_RequestShape ==
    request # NoRequest =>
        IF is_get_request
        THEN request.method = "GET" /\ request.url = fetch_link
        ELSE /\ request.method = "POST"
             /\ request.content_type = "application/x-www-form-urlencoded"
             /\ "?" \notin SeqRange(request.url)
             /\ IF "?" \in SeqRange(fetch_link)
                THEN request.url \o <<"?">> \o request.data = fetch_link
                ELSE request.url = fetch_link /\ request.data = <<>>

\* a POST for a link with two "?"
C17_Witness ==
    /\ request.method = "POST"
    /\ "?" \in SeqRange(request.data)

\* C18: main without memories file leaves download_dir as it was and starts
\* nothing; otherwise download_dir exists when the pipeline starts.
C18_MainExit ==
    [][ /\ run' = run + 1 =>
              IF memories_exists
              THEN dir_exists' /\ pc' = "fetch"
              ELSE /\ dir_exists' = dir_exists
                   /\ pc' = "exited"
                   /\ files' = files /\ df' = df /\ requested' = requested
        /\ pc' \in {"fetch", "zips", "meta", "done", "crashed"} =>
              memories_exists /\ dir_exists'
      ]_vars

\* main has returned for want of the memories file, download_dir missing
C18_Witness ==
    /\ pc = "exited"
    /\ run > 0
    /\ ~dir_exists

\* C19: the moves of one archive go to pairwise distinct paths, and after
\* the expansion each path holds the entry the move put there.
C19_DistinctFinalPaths ==
    /\ \A n, m \in DOMAIN moves :
          (n # m /\ moves[n].row = moves[m].row) => moves[n].dest # moves[m].dest
    /\ pc = "meta" =>
          \A n \in DOMAIN moves :
              files[moves[n].dest].entry =
                  <<df[moves[n].row].file_name, moves[n].dir, moves[n].pos>>

\* C20: the file of a resumed row holds a complete response body.
C20_ResumeOnlyComplete ==
    \A k \in Rows : outcome[k] = "resumed" => files[df[k].file_path].full

\* the value of the float is below zero
Negative(x) == x.neg /\ x.mag > 0

\* C21: GPSLatitudeRef is N exactly when lat is not below zero and
\* GPSLongitudeRef is E exactly when lon is not below zero; GPSCoordinates
\* and Location hold the magnitudes of lat and lon, each followed by the
\* letter of the matching reference tag.
C21_HemispheresAgree ==
    metadata_tags # NoTags =>
        /\ metadata_tags.GPSLatitudeRef = (IF Negative(lat) THEN "S" ELSE "N")
        /\ metadata_tags.GPSLongitudeRef = (IF Negative(lon) THEN "W" ELSE "E")
        /\ metadata_tags.GPSCoordinates =
              <<lat.mag, metadata_tags.GPSLatitudeRef,
                lon.mag, metadata_tags.GPSLongitudeRef>>
        /\ metadata_tags.Location = metadata_tags.GPSCoordinates

\* tags built for a southern latitude and a longitude of -0.0
C21_Witness ==
    /\ metadata_tags # NoTags
    /\ Negative(lat)
    /\ lon = Float(TRUE, 0)
====
